---- MODULE Spec2Model ----
(***************************************************************************)
(* FFMpegSplit (src/main.py): a timing file names a music file and lists   *)
(* tracks "startTime[|endTime]|nameOfSong[|artist]"; main parses every     *)
(* timing file and hands each track to FFMpeg.                             *)
(*                                                                         *)
(* A Python str is a sequence of one-character strings, so "10|a" is       *)
(* <<"1","0","|","a">>.  A time in seconds is kept in thousandths of a     *)
(* second (3.005 s is 3005), which is exact for int(ms) / 1000.            *)
(* Python's None and parse_time's False are the empty tuple and a value v  *)
(* in the same slot is <<v>>.  Python indexes from 0 and TLA+ from 1:      *)
(* parts[k] of the source is parts[k + 1] here.                            *)
(***************************************************************************)
EXTENDS Integers, Sequences, FiniteSets, TLC

VARIABLES
    args,        \* args.timing_files: per file whether it exists and its lines
    pc,          \* where main is
    all_tracks,  \* main's list of get_timings results
    i,           \* index of the element the comprehension / the for loop is at
    num,         \* index of the track the inner loop is at
    log,         \* history: the get_timings and split calls, in call order
    stdout,      \* what was printed
    input,       \* argument of the function under study (function specifications)
    output       \* <<>> before the call, <<returned value>> after it

vars == <<args, pc, all_tracks, i, num, log, stdout, input, output>>

None == <<>>
False == <<>>

----------------------------------------------------------------------------
(* Bounds of the model *)

\* command-line timing files
NumFiles == 2
\* lines of a timing file given to main
MaxMainLines == 3
\* lines of a timing file given to get_timings alone
MaxLines == 4
\* "|"-separated fields of a line given to parse_track
MaxFields == 4
\* sub-second digits of a time given to parse_time
MaxMsDigits == 3

----------------------------------------------------------------------------
(* str helpers *)

Digits == <<"0", "1", "2", "3", "4", "5", "6", "7", "8", "9">>

IsDigit(c) == \E d \in DOMAIN Digits : Digits[d] = c

DigitVal(c) == (CHOOSE d \in DOMAIN Digits : Digits[d] = c) - 1

AllDigits(s) == \A k \in DOMAIN s : IsDigit(s[k])

\* int(s) for a str of digits
RECURSIVE int(_)
int(s) ==
    IF s = <<>> THEN 0
    ELSE int(SubSeq(s, 1, Len(s) - 1)) * 10 + DigitVal(s[Len(s)])

Whitespace == {" ", "\t", "\n", "\r"}

RECURSIVE lstrip(_)
lstrip(s) ==
    IF s # <<>> /\ s[1] \in Whitespace THEN lstrip(Tail(s)) ELSE s

RECURSIVE rstrip(_)
rstrip(s) ==
    IF s # <<>> /\ s[Len(s)] \in Whitespace
    THEN rstrip(SubSeq(s, 1, Len(s) - 1))
    ELSE s

\* str.strip()
strip(s) == rstrip(lstrip(s))

\* str.split(sep): always at least one part
RECURSIVE split_str(_, _)
split_str(s, sep) ==
    IF \A k \in DOMAIN s : s[k] # sep THEN <<s>>
    ELSE LET p == CHOOSE k \in DOMAIN s :
                      s[k] = sep /\ \A j \in 1..(k - 1) : s[j] # sep
         IN <<SubSeq(s, 1, p - 1)>> \o split_str(SubSeq(s, p + 1, Len(s)), sep)

----------------------------------------------------------------------------
(* parse_time *)

TwoDigits(s, k) == IsDigit(s[k]) /\ IsDigit(s[k + 1])

\* TIME_RE.match(time): the groups H, M, S, ms (None when a group took no part).
\* The times given to it hold no newline, so "$" is the end of the str.
TIME_RE(time) ==
    LET dots == {k \in DOMAIN time : time[k] = "."}
        dot  == IF dots = {} THEN 0
                ELSE CHOOSE k \in dots : \A j \in dots : k <= j
        body == IF dot = 0 THEN time ELSE SubSeq(time, 1, dot - 1)
        ms   == IF dot = 0 THEN None ELSE <<SubSeq(time, dot + 1, Len(time))>>
        msOk == ms = None \/ (ms[1] # <<>> /\ AllDigits(ms[1]))
        nomatch == [ok |-> FALSE, H |-> None, M |-> None, S |-> None, ms |-> None]
    IN  IF ~msOk THEN nomatch
        ELSE IF Len(body) = 2 /\ TwoDigits(body, 1)
        THEN [ok |-> TRUE, H |-> None, M |-> None, S |-> <<body>>, ms |-> ms]
        ELSE IF Len(body) = 5 /\ TwoDigits(body, 1) /\ body[3] = ":"
                /\ TwoDigits(body, 4)
        THEN [ok |-> TRUE, H |-> None, M |-> <<SubSeq(body, 1, 2)>>,
              S |-> <<SubSeq(body, 4, 5)>>, ms |-> ms]
        ELSE IF Len(body) = 8 /\ TwoDigits(body, 1) /\ body[3] = ":"
                /\ TwoDigits(body, 4) /\ body[6] = ":" /\ TwoDigits(body, 7)
        THEN [ok |-> TRUE, H |-> <<SubSeq(body, 1, 2)>>,
              M |-> <<SubSeq(body, 4, 5)>>, S |-> <<SubSeq(body, 7, 8)>>,
              ms |-> ms]
        ELSE nomatch

\* A variant of Milliseconds that reads the digits as a decimal fraction
\* (".5" is half a second); digits past the third are dropped.
MillisecondsAsFraction(ms) ==
    LET d == IF Len(ms) > 3 THEN SubSeq(ms, 1, 3) ELSE ms
    IN  IF Len(d) = 1 THEN int(d) * 100
        ELSE IF Len(d) = 2 THEN int(d) * 10
        ELSE int(d)

\* seconds += int(match["ms"]) / 1000, in thousandths of a second
Milliseconds(ms) == int(ms)

\* False, or <<the time in thousandths of a second>>
parse_time(time) ==
    LET match == TIME_RE(time)
    IN  IF ~match.ok THEN False
        ELSE <<  int(match.S[1]) * 1000
               + (IF match.H # None THEN int(match.H[1]) * 3600 * 1000 ELSE 0)
               + (IF match.M # None THEN int(match.M[1]) * 60 * 1000 ELSE 0)
               + (IF match.ms # None THEN Milliseconds(match.ms[1]) ELSE 0) >>

----------------------------------------------------------------------------
(* parse_track *)

NoStartAndName == "'%s' at line %d must have a start time and a song name"
BadStartTime ==
    "'%s' at line %d must follow the correct time syntax in the start time"
NoSongName == "'%s' at line %d must have a song name"

\* a str that is a message: the format and the values substituted so far
str(fmt) == [type |-> "str", fmt |-> fmt, subs |-> <<>>]

\* fmt % subs
format(s, subs) == [s EXCEPT !.subs = subs]

isinstance_str(v) == v.type = "str"

\* A variant of EndTimeMissing that tests the truth value, which takes an end
\* time of 0 for a missing one.
EndTimeFalsy(end_time) == end_time = False \/ end_time = <<0>>

\* end_time is False
EndTimeMissing(end_time) == end_time = False

parse_track(track) ==
    LET parts == split_str(track, "|")
    IN  IF Len(parts) < 2 THEN str(NoStartAndName)
        ELSE
        LET start_time == parse_time(parts[1])
        IN  IF start_time = False THEN str(BadStartTime)
            ELSE
            LET parsed     == parse_time(parts[2])
                name_index == IF EndTimeMissing(parsed) THEN 1 ELSE 2
                end_time   == IF EndTimeMissing(parsed) THEN None ELSE parsed
            IN  IF name_index >= Len(parts) THEN str(NoSongName)
                ELSE [type       |-> "dict",
                      start_time |-> start_time[1],
                      end_time   |-> end_time,
                      song_name  |-> parts[name_index + 1],
                      artist     |-> IF name_index + 1 < Len(parts)
                                     THEN <<parts[name_index + 2]>>
                                     ELSE None]

----------------------------------------------------------------------------
(* get_next_line, get_timings *)

\* reader.readline() at offset pos (lines already read): "" at the end of the
\* file, else the next line with its newline.  A text is the tuple of its
\* lines, each taken to end with a newline.
readline(text, pos) ==
    IF pos < Len(text) THEN text[pos + 1] \o <<"\n">> ELSE <<>>

advance(text, pos) == IF pos < Len(text) THEN pos + 1 ELSE pos

RECURSIVE skip_comments(_, _, _, _)
skip_comments(text, pos, line, count) ==
    IF line # <<>> /\ line[1] = "#"
    THEN skip_comments(text, advance(text, pos), readline(text, pos), count + 1)
    ELSE [line |-> strip(line), count |-> count, pos |-> pos]

\* A variant of get_next_line whose count leaves out the line it returns.
get_next_line_from_zero(text, pos) ==
    skip_comments(text, advance(text, pos), readline(text, pos), 0)

\* (line, count) and the reader's new offset
get_next_line(text, pos) ==
    skip_comments(text, advance(text, pos), readline(text, pos), 1)

\* The music file of the timing files (it has a suffix, so the directory split
\* makes is not the file itself); Path("") is the directory "."
MusicPath == <<"m", ".", "x">>
ExistingPaths == {MusicPath, <<".">>}

Path(line) == IF line = <<>> THEN <<".">> ELSE line

exists(path) == path \in ExistingPaths

MusicFileMissing == "The given music file '%s' in '%s' doesn't exist"

\* A variant of needs_end_time that tests the truth value of end_time.
needs_end_time_falsy(track) ==
    track.end_time = None \/ track.end_time = <<0>>

\* track["end_time"] is None
needs_end_time(track) == track.end_time = None

\* A variant of next_start_time that is off by one track.
own_start_time(tracks, k) == tracks[k].start_time

\* tracks["tracks"][i + 1]["start_time"], for the track at k = i + 1
next_start_time(tracks, k) == tracks[k + 1].start_time

\* Adjust the end_times if they don't exist
adjust_end_times(tracks) ==
    IF Len(tracks) > 1
    THEN [k \in 1..Len(tracks) |->
            IF k < Len(tracks) /\ needs_end_time(tracks[k])
            THEN [tracks[k] EXCEPT !.end_time = <<next_start_time(tracks, k)>>]
            ELSE tracks[k]]
    ELSE tracks

\* A variant of return_error that gives back the tracks parsed so far.
return_tracks_so_far(track, timing_file, line_num, tracks) == tracks

\* return track % (timing_file, line_num)
return_error(track, timing_file, line_num, tracks) ==
    format(track, <<timing_file, line_num>>)

\* The while loop and what follows it; tracks is the dict built so far.
\* Gives the returned value and the reader's offset at the return.
RECURSIVE while_line(_, _, _, _, _, _)
while_line(timing_file, text, pos, line, line_num, tracks) ==
    IF line = <<>>
    THEN [ret    |-> [tracks EXCEPT !.tracks = adjust_end_times(tracks.tracks)],
          reader |-> pos]
    ELSE
    LET track == parse_track(line)
    IN  IF isinstance_str(track)
        THEN [ret    |-> return_error(track, timing_file, line_num, tracks),
              reader |-> pos]
        ELSE LET next == get_next_line(text, pos)
             IN  while_line(timing_file, text, next.pos, next.line,
                            line_num + next.count,
                            [tracks EXCEPT !.tracks = Append(@, track)])

get_timings(timing_file, text) ==
    LET first      == get_next_line(text, 0)
        music_file == Path(first.line)
    IN  IF ~exists(music_file)
        THEN [ret    |-> format(str(MusicFileMissing), <<music_file, timing_file>>),
              reader |-> first.pos]
        ELSE LET second == get_next_line(text, first.pos)
             IN  while_line(timing_file, text, second.pos, second.line,
                            first.count + second.count,
                            [type |-> "dict", tracks |-> <<>>,
                             music_file |-> music_file])

----------------------------------------------------------------------------
(* split *)

FFMpegError == "FFMpeg error on track '%s' in '%s'\nStderr:\n%s"

\* the arguments given to ffmpeg: -ss, -t (None when left out), -i and the
\* name of the file to create
split_options(file, track) ==
    [ss  |-> track.start_time,
     t   |-> IF track.end_time # None
             THEN <<track.end_time[1] - track.start_time>>
             ELSE None,
     i   |-> file,
     out |-> IF track.artist # None /\ track.artist[1] # <<>>
             THEN track.song_name \o <<" ", "b", "y", " ">> \o track.artist[1]
             ELSE track.song_name]

\* the returned value, for the return code of ffmpeg
split(file, track, returncode) ==
    IF returncode # 0
    THEN format(str(FFMpegError), <<split_options(file, track).out, file>>)
    ELSE [type |-> "None", fmt |-> "", subs |-> <<>>]

----------------------------------------------------------------------------
(* main *)

FFMpegNotFound ==
    "FFMpeg needs to be installed on this machine and able to be found on the PATH"
FileMissing == "The file '%s' doesn't exist"
Splitting == "Splitting '%s'..."
SplittingAt == "Splitting '%s' at track #%d/%d"
Finished == "Finished splitting '%s' for %d tracks"

ReturnCodes == {0, 1}

check_good_file(file) == file.exists

\* A variant of collect that puts the newest result first.
collect_reversed(list, result) == <<result>> \o list

\* the list comprehension adds one result
collect(list, result) == Append(list, result)

\* A variant of after_split that goes on to the next track after an error.
after_split_keep_going(track_result) == "tracks"

\* Give up on these tracks if we get an error
after_split(track_result) ==
    IF isinstance_str(track_result) THEN "break" ELSE "tracks"

call(ev, file, k, returncode, detail) ==
    [ev |-> ev, file |-> file, num |-> k, returncode |-> returncode,
     detail |-> detail]

\* subprocess.run(["ffmpeg", "--help"]) and exit(1)
CheckFFMpeg ==
    /\ pc = "ffmpeg"
    /\ \E found \in BOOLEAN :
        IF found
        THEN pc' = "comprehension" /\ stdout' = stdout
        ELSE pc' = "exit" /\ stdout' = Append(stdout, str(FFMpegNotFound))
    /\ UNCHANGED <<args, all_tracks, i, num, log, input, output>>

NextElement ==
    IF i = Len(args) THEN pc' = "for" /\ i' = 1 ELSE pc' = pc /\ i' = i + 1

\* the comprehension at a timing file that does not exist
SkipMissingFile ==
    /\ pc = "comprehension"
    /\ ~check_good_file(args[i])
    /\ stdout' = Append(stdout, format(str(FileMissing), <<i>>))
    /\ NextElement
    /\ UNCHANGED <<args, all_tracks, num, log, input, output>>

\* the comprehension at a timing file that exists
GetTimings ==
    /\ pc = "comprehension"
    /\ check_good_file(args[i])
    /\ LET result == get_timings(i, args[i].text)
       IN  /\ all_tracks' = collect(all_tracks,
                                    [timing_file |-> i, ret |-> result.ret])
           /\ log' = Append(log, call("get_timings", i, 0, 0, result.reader))
    /\ NextElement
    /\ UNCHANGED <<args, num, stdout, input, output>>

\* Print the error message if the track is actually a string
PrintDiagnostic ==
    /\ pc = "for"
    /\ i <= Len(all_tracks)
    /\ isinstance_str(all_tracks[i].ret)
    /\ stdout' = Append(stdout, all_tracks[i].ret)
    /\ i' = i + 1
    /\ UNCHANGED <<args, pc, all_tracks, num, log, input, output>>

StartSplitting ==
    /\ pc = "for"
    /\ i <= Len(all_tracks)
    /\ ~isinstance_str(all_tracks[i].ret)
    /\ stdout' = Append(stdout,
                        format(str(Splitting), <<all_tracks[i].ret.music_file>>))
    /\ pc' = "tracks"
    /\ num' = 0
    /\ UNCHANGED <<args, all_tracks, i, log, input, output>>

\* one turn of the inner loop
SplitTrack ==
    /\ pc = "tracks"
    /\ num < Len(all_tracks[i].ret.tracks)
    /\ \E returncode \in ReturnCodes :
        LET file         == all_tracks[i].ret.music_file
            track        == all_tracks[i].ret.tracks[num + 1]
            size         == Len(all_tracks[i].ret.tracks)
            track_result == split(file, track, returncode)
        IN  /\ log' = Append(log, call("split", all_tracks[i].timing_file, num,
                                       returncode, split_options(file, track)))
            /\ stdout' = Append(stdout,
                    IF isinstance_str(track_result) THEN track_result
                    ELSE format(str(SplittingAt), <<file, num, size>>))
            /\ pc' = after_split(track_result)
            /\ num' = IF pc' = "tracks" THEN num + 1 ELSE num
    /\ UNCHANGED <<args, all_tracks, i, input, output>>

FinishSplitting ==
    /\ \/ pc = "tracks" /\ num = Len(all_tracks[i].ret.tracks)
       \/ pc = "break"
    /\ stdout' = Append(stdout,
                        format(str(Finished), <<all_tracks[i].ret.music_file,
                                                Len(all_tracks[i].ret.tracks)>>))
    /\ pc' = "for"
    /\ i' = i + 1
    /\ num' = 0
    /\ UNCHANGED <<args, all_tracks, log, input, output>>

Return ==
    /\ pc = "for"
    /\ i > Len(all_tracks)
    /\ pc' = "done"
    /\ UNCHANGED <<args, all_tracks, i, num, log, stdout, input, output>>

\* every sequence of at most n lines, each from choices
Texts(choices, n) == UNION {[1..k -> choices] : k \in 0..n}

\* the lines of the timing files given to main: the music file, or a track
MainLines == {MusicPath, <<"1", "0", "|", "a">>}

TimingFiles ==
    {[exists |-> FALSE, text |-> <<>>]}
    \cup {[exists |-> TRUE, text |-> t] : t \in Texts(MainLines, MaxMainLines)}

Init ==
    /\ args \in UNION {[1..n -> TimingFiles] : n \in 1..NumFiles}
    /\ pc = "ffmpeg"
    /\ all_tracks = <<>>
    /\ i = 1
    /\ num = 0
    /\ log = <<>>
    /\ stdout = <<>>
    /\ input = <<>>
    /\ output = <<>>

Next ==
    \/ CheckFFMpeg
    \/ SkipMissingFile
    \/ GetTimings
    \/ PrintDiagnostic
    \/ StartSplitting
    \/ SplitTrack
    \/ FinishSplitting
    \/ Return

Spec == Init /\ [][Next]_vars

----------------------------------------------------------------------------
(* The functions on their own: input is the argument, output the result *)

MainIdle ==
    /\ args = <<>>
    /\ pc = "idle"
    /\ all_tracks = <<>>
    /\ i = 1
    /\ num = 0
    /\ log = <<>>
    /\ stdout = <<>>

Called == output # <<>>

\* two-digit fields, and fields that are not two digits
Pairs == {<<"0", "1">>, <<"0", "2">>, <<"0", "3">>}
NotPairs == {<<"1">>, <<"0", "a">>, <<"0", "0", "1">>}

TimeBodies ==
    LET f == Pairs \cup NotPairs
    IN  f \cup {h \o <<":">> \o m : h \in f, m \in f}
          \cup {h \o <<":">> \o m \o <<":">> \o s : h \in f, m \in f, s \in f}

MsDigits == {"0", "1", "5"}

TimeFractions ==
    {<<>>, <<".">>, <<".", "a">>, <<".", "5", ".", "5">>}
    \cup UNION {{<<".">> \o d : d \in [1..k -> MsDigits]} : k \in 1..MaxMsDigits}

Times == {b \o f : b \in TimeBodies, f \in TimeFractions} \cup {<<>>}

InitTime == MainIdle /\ input \in Times /\ output = <<>>

CallParseTime ==
    /\ ~Called
    /\ output' = <<parse_time(input)>>
    /\ UNCHANGED <<args, pc, all_tracks, i, num, log, stdout, input>>

SpecTime == InitTime /\ [][CallParseTime]_vars

\* "|".join(fields)
RECURSIVE join(_)
join(fields) ==
    IF Len(fields) = 1 THEN fields[1]
    ELSE fields[1] \o <<"|">> \o join(Tail(fields))

\* the fields a line is made of: empty, names, times and near-times
TrackFields ==
    {<<>>, <<"a">>, <<"b", " ", "c">>, <<"1">>, <<"1", "0">>, <<"0", "0">>,
     <<"0", "1", ":", "0", "0">>, <<"1", "0", ".", "5">>}

\* input is the tuple of fields, the line is join(input)
InitTrack ==
    /\ MainIdle
    /\ input \in UNION {[1..k -> TrackFields] : k \in 1..MaxFields}
    /\ output = <<>>

CallParseTrack ==
    /\ ~Called
    /\ output' = <<parse_track(join(input))>>
    /\ UNCHANGED <<args, pc, all_tracks, i, num, log, stdout, input>>

SpecTrack == InitTrack /\ [][CallParseTrack]_vars

\* the lines of a timing file given to get_timings
Lines ==
    {MusicPath, <<"#">>, <<>>, <<" ">>,
     <<"1", "0", "|", "a">>,
     <<"2", "0", "|", "b">>,
     <<"1", "0", "|", "0", "0", "|", "a">>,
     <<"2", "0", "|", "3", "0", "|", "b", "|", "c">>,
     <<"1", "0", "|">>}

InitTimings ==
    /\ MainIdle
    /\ input \in Texts(Lines, MaxLines)
    /\ output = <<>>

\* output is <<[ret, reader]>>
CallGetTimings ==
    /\ ~Called
    /\ output' = <<get_timings(1, input)>>
    /\ UNCHANGED <<args, pc, all_tracks, i, num, log, stdout, input>>

SpecTimings == InitTimings /\ [][CallGetTimings]_vars

----------------------------------------------------------------------------
(* Properties of parse_time (SpecTime) *)

\* "01:02:03.5"
OneTwoThreePointFive ==
    <<"0", "1", ":", "0", "2", ":", "0", "3", ".", "5">>

\* time is a valid time of whole seconds followed by "." and one digit
SingleMsDigit(time) ==
    /\ Len(time) >= 2
    /\ time[Len(time) - 1] = "."
    /\ IsDigit(time[Len(time)])
    /\ \A k \in 1..(Len(time) - 2) : time[k] # "."
    /\ parse_time(SubSeq(time, 1, Len(time) - 2)) # False

WholeSeconds(time) == parse_time(SubSeq(time, 1, Len(time) - 2))[1]

\* C7 as claimed: a single sub-second digit d counts as d tenths of a second,
\* and parse_time("01:02:03.5") is 3723.5 s, 3723500 thousandths.
C7_SingleDigitIsTenths ==
    Called =>
        /\ SingleMsDigit(input) =>
              output[1] = <<WholeSeconds(input) + DigitVal(input[Len(input)]) * 100>>
        /\ input = OneTwoThreePointFive => output[1] = <<3723500>>

\* C7 amended: a single sub-second digit d counts as d thousandths of a
\* second, and parse_time("01:02:03.5") is 3723.005 s, 3723005 thousandths.
C7_SingleDigitIsThousandths ==
    Called =>
        /\ SingleMsDigit(input) =>
              output[1] = <<WholeSeconds(input) + DigitVal(input[Len(input)])>>
        /\ input = OneTwoThreePointFive => output[1] = <<3723005>>

C7_Witness ==
    Called /\ input = OneTwoThreePointFive /\ output[1] = <<3723005>>

----------------------------------------------------------------------------
(* Properties of parse_track (SpecTrack) *)

\* C5: every TrackRequest parse_track returns has a non-empty song_name (a
\* line whose song name field is empty gets a Diagnostic).
C5_SongNameNonEmpty ==
    Called /\ output[1].type = "dict" => output[1].song_name # <<>>

IsTime(field) == parse_time(field) # False

\* C6: with a valid start time in field 1, a field 2 that is a time is the end
\* time, field 3 the song name (a Diagnostic without it) and field 4 the
\* artist; otherwise there is no end time, field 2 is the song name and field 3
\* the artist.  Fewer than two fields or an invalid start time is a Diagnostic.
C6_TimeWins ==
    Called =>
        LET n == Len(input)
            r == output[1]
        IN  IF n < 2 \/ ~IsTime(input[1]) THEN r.type = "str"
            ELSE IF IsTime(input[2])
            THEN IF n < 3 THEN r.type = "str"
                 ELSE /\ r.type = "dict"
                      /\ r.start_time = parse_time(input[1])[1]
                      /\ r.end_time = parse_time(input[2])
                      /\ r.song_name = input[3]
                      /\ r.artist = IF n >= 4 THEN <<input[4]>> ELSE None
            ELSE /\ r.type = "dict"
                 /\ r.start_time = parse_time(input[1])[1]
                 /\ r.end_time = None
                 /\ r.song_name = input[2]
                 /\ r.artist = IF n >= 3 THEN <<input[3]>> ELSE None

C6_Witness ==
    /\ Called
    /\ Len(input) = 4
    /\ input[2] = <<"0", "0">>
    /\ output[1].type = "dict"
    /\ output[1].end_time = <<0>>
    /\ output[1].song_name = input[3]
    /\ output[1].artist = <<input[4]>>

----------------------------------------------------------------------------
(* Properties of get_timings (SpecTimings) *)

IsComment(line) == line # <<>> /\ line[1] = "#"

IsBlank(line) == strip(line) = <<>>

Indices(text) == [n \in 1..Len(text) |-> n]

\* the line with the source path: the first that is no comment (0 if none)
SourceLine(text) ==
    IF \A n \in 1..Len(text) : IsComment(text[n]) THEN 0
    ELSE CHOOSE n \in 1..Len(text) :
            ~IsComment(text[n]) /\ \A m \in 1..(n - 1) : IsComment(text[m])

SourceExists(text) ==
    SourceLine(text) # 0 /\ exists(Path(strip(text[SourceLine(text)])))

\* the lines after the source line that are neither comment nor blank
DirectiveLines(text) ==
    LET Is(n) == n > SourceLine(text) /\ ~IsComment(text[n]) /\ ~IsBlank(text[n])
    IN  SelectSeq(Indices(text), Is)

\* those of them with no blank line between the source line and them
LinesBeforeBlank(text) ==
    LET Is(n) ==
            /\ n > SourceLine(text)
            /\ ~IsComment(text[n])
            /\ \A m \in (SourceLine(text) + 1)..n :
                    IsComment(text[m]) \/ ~IsBlank(text[m])
    IN  SelectSeq(Indices(text), Is)

ParsedLine(text, n) == parse_track(strip(text[n]))

\* C1: when the source exists and every directive line parses, the result has
\* one TrackRequest per non-comment, non-empty line after the source line, in
\* file order, wherever blank lines lie.
C1_OneTrackPerLine ==
    (/\ Called
     /\ SourceExists(input)
     /\ \A k \in DOMAIN DirectiveLines(input) :
            ParsedLine(input, DirectiveLines(input)[k]).type = "dict")
    => LET ret == output[1].ret
           at  == DirectiveLines(input)
       IN  /\ ret.type = "dict"
           /\ Len(ret.tracks) = Len(at)
           /\ \A k \in DOMAIN at :
                LET p == ParsedLine(input, at[k])
                IN  /\ ret.tracks[k].start_time = p.start_time
                    /\ ret.tracks[k].song_name = p.song_name
                    /\ ret.tracks[k].artist = p.artist

\* the tracks as parse_track gave them, before the end times are adjusted
AsParsed(text) ==
    [k \in DOMAIN LinesBeforeBlank(text) |->
        ParsedLine(text, LinesBeforeBlank(text)[k])]

\* C2: with N >= 2 tracks, every track but the last has an end time: the one
\* its line gave (0 included), else the start time of the next track; the last
\* track is as parsed.  With 0 or 1 tracks nothing is changed.
C2_EndTimesResolved ==
    Called /\ output[1].ret.type = "dict" =>
        LET tracks == output[1].ret.tracks
            parsed == AsParsed(input)
            N      == Len(tracks)
        IN  /\ Len(parsed) = N
            /\ N < 2 => tracks = parsed
            /\ N >= 2 =>
                /\ tracks[N] = parsed[N]
                /\ \A k \in 1..(N - 1) :
                    /\ tracks[k].end_time # None
                    /\ tracks[k].end_time =
                          IF parsed[k].end_time = None
                          THEN <<parsed[k + 1].start_time>>
                          ELSE parsed[k].end_time
                    /\ [tracks[k] EXCEPT !.end_time = parsed[k].end_time]
                          = parsed[k]

C2_Witness ==
    /\ Called
    /\ output[1].ret.type = "dict"
    /\ Len(output[1].ret.tracks) = 3
    /\ AsParsed(input)[1].end_time = None
    /\ output[1].ret.tracks[1].end_time = <<10000>>
    /\ AsParsed(input)[2].end_time = <<0>>
    /\ output[1].ret.tracks[2].end_time = <<0>>
    /\ output[1].ret.tracks[3].end_time = None

IsMalformedDirective(ret) ==
    ret.type = "str" /\ ret.fmt \in {NoStartAndName, BadStartTime, NoSongName}

HasOffendingLine(text) ==
    /\ SourceExists(text)
    /\ \E k \in DOMAIN LinesBeforeBlank(text) :
            ParsedLine(text, LinesBeforeBlank(text)[k]).type = "str"

\* the first line parse_track refuses
OffendingLine(text) ==
    LET at == LinesBeforeBlank(text)
        k  == CHOOSE k \in DOMAIN at :
                /\ ParsedLine(text, at[k]).type = "str"
                /\ \A j \in 1..(k - 1) : ParsedLine(text, at[j]).type = "dict"
    IN  at[k]

\* C8: the line number in a MalformedDirective Diagnostic is the 1-based
\* number of the offending line in the file, the source line and all comment
\* lines before it counted.
C8_LineNumber ==
    Called /\ IsMalformedDirective(output[1].ret) =>
        /\ HasOffendingLine(input)
        /\ output[1].ret.subs[2] = OffendingLine(input)
        /\ output[1].ret.fmt = ParsedLine(input, OffendingLine(input)).fmt

C8_Witness ==
    /\ Called
    /\ Len(input) = 4
    /\ IsComment(input[1])
    /\ IsComment(input[3])
    /\ IsMalformedDirective(output[1].ret)
    /\ output[1].ret.subs[2] = 4

Duration(ret, k) == split_options(ret.music_file, ret.tracks[k]).t

\* C10 as claimed: every track with an end time has end_time > start_time, so
\* every duration given with -t is positive, whatever the order of the lines.
C10_EndAfterStart ==
    Called /\ output[1].ret.type = "dict" =>
        \A k \in DOMAIN output[1].ret.tracks :
            LET track == output[1].ret.tracks[k]
            IN  track.end_time # None =>
                    /\ track.end_time[1] > track.start_time
                    /\ Duration(output[1].ret, k)[1] > 0

\* the lines are in increasing order of start time and every end time a line
\* gives is after its start time
WellOrdered(parsed) ==
    /\ \A k \in 1..(Len(parsed) - 1) :
            parsed[k].start_time < parsed[k + 1].start_time
    /\ \A k \in DOMAIN parsed :
            parsed[k].end_time # None =>
                parsed[k].end_time[1] > parsed[k].start_time

\* C10 amended: when the start times of the lines increase strictly and every
\* end time a line gives is after its start time, every track with an end time
\* has end_time > start_time and every duration given with -t is positive.
C10_EndAfterStartWhenOrdered ==
    Called /\ output[1].ret.type = "dict" /\ WellOrdered(AsParsed(input)) =>
        \A k \in DOMAIN output[1].ret.tracks :
            LET track == output[1].ret.tracks[k]
            IN  track.end_time # None =>
                    /\ track.end_time[1] > track.start_time
                    /\ Duration(output[1].ret, k)[1] > 0

C10_Witness ==
    /\ Called
    /\ output[1].ret.type = "dict"
    /\ WellOrdered(AsParsed(input))
    /\ Len(output[1].ret.tracks) = 2
    /\ AsParsed(input)[1].end_time = None
    /\ Duration(output[1].ret, 1) = <<10000>>
    /\ Duration(output[1].ret, 2) = <<10000>>

----------------------------------------------------------------------------
(* Properties of main (Spec) *)

IsSplitOf(f, e) == e.ev = "split" /\ e.file = f

\* the split calls for the tracks of timing file f, in call order
Splits(f) ==
    LET Is(e) == IsSplitOf(f, e)
    IN  SelectSeq(log, Is)

GetTimingsCalls(f) ==
    LET Is(e) == e.ev = "get_timings" /\ e.file = f
    IN  SelectSeq(log, Is)

\* C3: when parse_track refuses a line of a timing file, get_timings returns
\* only the Diagnostic of the first such line, with no track list, reads no
\* line after it, and split is never called for a track of that file.
C3_AllOrNothing ==
    \A p \in DOMAIN all_tracks :
        LET f    == all_tracks[p].timing_file
            text == args[f].text
        IN  HasOffendingLine(text) =>
                /\ all_tracks[p].ret =
                      format(ParsedLine(text, OffendingLine(text)),
                             <<f, OffendingLine(text)>>)
                /\ Len(GetTimingsCalls(f)) = 1
                /\ GetTimingsCalls(f)[1].detail = OffendingLine(text)
                /\ Splits(f) = <<>>

C3_Witness ==
    /\ pc = "done"
    /\ \E p \in DOMAIN all_tracks :
        /\ HasOffendingLine(args[all_tracks[p].timing_file].text)
        /\ OffendingLine(args[all_tracks[p].timing_file].text) = 3
        /\ Len(args[all_tracks[p].timing_file].text) = 3
        /\ isinstance_str(all_tracks[p].ret)
    /\ \E e \in DOMAIN log : log[e].ev = "split"

\* C4: the tracks of a file go to split one at a time in directive order,
\* none twice; after a failed split no later track of the file is dispatched;
\* and every file that parsed is dispatched from its first track, up to its
\* last track or its first failure, whatever happened to the files before it.
C4_FailFastPerFile ==
    \A p \in DOMAIN all_tracks :
        ~isinstance_str(all_tracks[p].ret) =>
            LET f      == all_tracks[p].timing_file
                ret    == all_tracks[p].ret
                calls  == Splits(f)
            IN  /\ Len(calls) <= Len(ret.tracks)
                /\ \A k \in DOMAIN calls :
                    /\ calls[k].num = k - 1
                    /\ calls[k].detail =
                          split_options(ret.music_file, ret.tracks[k])
                    /\ k < Len(calls) => calls[k].returncode = 0
                /\ pc = "done" =>
                    \/ Len(calls) = Len(ret.tracks)
                    \/ calls[Len(calls)].returncode # 0

C4_Witness ==
    /\ pc = "done"
    /\ Len(all_tracks) = 2
    /\ Len(Splits(1)) = 1
    /\ Splits(1)[1].returncode # 0
    /\ Len(all_tracks[1].ret.tracks) = 2
    /\ Len(Splits(2)) = 2

\* C9 as claimed: for F1 before F2 on the command line, no step of F2, reading
\* and parsing it included, happens before F1's last dispatched track.
C9_FileByFile ==
    \A p \in DOMAIN log : \A q \in DOMAIN log :
        p < q /\ log[p].file > log[q].file => log[q].ev # "split"

\* C9 amended: the timing files are read and parsed in the order supplied,
\* all of them before any track is dispatched; then the tracks are dispatched
\* file by file in the order supplied, so no track of F2 is dispatched before
\* F1's last dispatched track.
C9_ParseAllThenDispatchInOrder ==
    \A p \in DOMAIN log : \A q \in DOMAIN log :
        p < q =>
            /\ log[p].ev = "split" => log[q].ev = "split"
            /\ log[p].ev = log[q].ev /\ log[p].ev = "get_timings"
                    => log[p].file < log[q].file
            /\ log[p].ev = log[q].ev /\ log[p].ev = "split"
                    => log[p].file <= log[q].file

C9_Witness ==
    /\ pc = "done"
    /\ Len(log) = 6
    /\ log[1].ev = "get_timings" /\ log[1].file = 1
    /\ log[2].ev = "get_timings" /\ log[2].file = 2
    /\ log[3].ev = "split" /\ log[3].file = 1
    /\ log[6].ev = "split" /\ log[6].file = 2

====
